---- MODULE Spec2Model ----
(***************************************************************************)
(* OpenCodeRunner (packages/opencode-runner): one Runner instance, the     *)
(* start() calls made on it, the external processes they spawn and the     *)
(* callbacks of those processes.                                           *)
(*                                                                         *)
(* JavaScript runs one callback at a time.  Every action below is one      *)
(* callback or one synchronous call run to its end; the continuation of    *)
(* an awaiting start() is a microtask, so it runs before any other         *)
(* callback (NoMicrotask guards the other actions).                        *)
(*                                                                         *)
(* LinearEventTransport (packages/linear-event-transport): the POST        *)
(* /webhook route handler and the two verification modes.                  *)
(*                                                                         *)
(* SharedApplicationServer: start() and stop(), the approval requests and  *)
(* the OAuth flows it keeps, their timers and the clock.                   *)
(***************************************************************************)
EXTENDS Integers, Sequences, FiniteSets, TLC

\* ------------------------------------------------------------------ bounds
MaxCalls == 2          \* accepted start() calls in one behaviour
MaxLines == 2          \* stdout lines one process writes
MaxApprovals == 3      \* registerApprovalRequest calls in one behaviour
MaxFlows == 2          \* startOAuthFlow calls in one behaviour
MaxClock == 40         \* the latest time Date.now() reaches, in minutes

Calls == 1..MaxCalls

\* --------------------------------------------------------------- constants
Null == 0              \* JS null in a handle-valued field
NullCode == -1         \* exit code null: the process was ended by a signal
NotExited == -100      \* no exit code reported (yet)
SpawnErrCode == -2     \* exit code reported after a failed spawn (ENOENT)
ExitCodes == {0, 137}

NoId == "null"         \* sessionId: null
PendingId == "pending"
SynthId == "opencode-now"   \* `opencode-${Date.now()}`, the clock value abstracted
UnknownError == "Unknown error"

\* --------------------------------------------------------- stdout lines
\* One line of the process's stdout.  kind "json" is a line JSON.parse
\* accepts, "bad" one it throws on, "blank" one that is only white space.
Line(kind, type, text, sid, inTok, outTok, cost) ==
    [kind |-> kind, type |-> type, text |-> text, sessionID |-> sid,
     input |-> inTok, output |-> outTok, cost |-> cost]

TextLine(t) == Line("json", "text", t, NoId, 0, 0, 0)
BadLine == Line("bad", "", "", NoId, 0, 0, 0)
BlankLine == Line("blank", "", "", NoId, 0, 0, 0)
StepStartLine(sid) == Line("json", "step_start", "", sid, 0, 0, 0)
StepFinishLine(i, o, c) == Line("json", "step_finish", "", NoId, i, o, c)

OtherLine(type) == Line("json", type, "", NoId, 0, 0, 0)

\* The lines a process of the interleaving specification may write.
StreamLines == {TextLine("Hi "), BadLine}

\* The lines a process of the single-session specification may write.
\* Costs are in thousandths of a dollar.
SessionLines ==
    {TextLine("Hi "), TextLine("there"), TextLine(""), BadLine, BlankLine,
     StepStartLine("abc"), StepStartLine("xyz"), StepStartLine(NoId),
     StepFinishLine(10, 5, 2), StepFinishLine(3, 1, 0),
     OtherLine("tool_call"), OtherLine("tool_result"), OtherLine("error"),
     OtherLine("future_type")}

\* ------------------------------------------------------------- messages
NoMsg == [type |-> "none", subtype |-> "", is_error |-> FALSE, text |-> "",
          errors |-> <<>>, input_tokens |-> 0, output_tokens |-> 0,
          total_cost_usd |-> 0, session_id |-> NoId]

\* SDKAssistantMessage built by parseOpenCodeOutput
AssistantMessage(text, sid) ==
    [type |-> "assistant", subtype |-> "", is_error |-> FALSE, text |-> text,
     errors |-> <<>>, input_tokens |-> 0, output_tokens |-> 0,
     total_cost_usd |-> 0, session_id |-> sid]

\* SDKResultMessage (subtype success) built by parseOpenCodeOutput
ResultMessage(text, inTok, outTok, cost, sid) ==
    [type |-> "result", subtype |-> "success", is_error |-> FALSE,
     text |-> text, errors |-> <<>>, input_tokens |-> inTok,
     output_tokens |-> outTok, total_cost_usd |-> cost, session_id |-> sid]

\* the error result without the "pending" placeholder
ErrorResult_RawId(err, sid) ==
    [type |-> "result", subtype |-> "error_during_execution",
     is_error |-> TRUE, text |-> "", errors |-> <<err>>, input_tokens |-> 0,
     output_tokens |-> 0, total_cost_usd |-> 0, session_id |-> sid]

\* SDKResultMessage (subtype error_during_execution) built by the catch block
ErrorResult(err, sid) ==
    [type |-> "result", subtype |-> "error_during_execution",
     is_error |-> TRUE, text |-> "", errors |-> <<err>>, input_tokens |-> 0,
     output_tokens |-> 0, total_cost_usd |-> 0,
     session_id |-> IF sid = NoId THEN PendingId ELSE sid]

\* Errors the wait of runCLIMode is rejected with
NoError == [kind |-> "none", code |-> 0, text |-> ""]

\* the exit error without the captured stderr text
ExitError_NoStderr(code, stderr) ==
    [kind |-> "exit", code |-> code, text |-> UnknownError]

\* new Error(`OpenCode exited with code ${code}: ${stderrData || "Unknown error"}`)
ExitError(code, stderr) ==
    [kind |-> "exit", code |-> code,
     text |-> IF stderr = "" THEN UnknownError ELSE stderr]
SpawnError == [kind |-> "spawn", code |-> SpawnErrCode, text |-> "spawn ENOENT"]
SpawnThrow == [kind |-> "spawn", code |-> 0, text |-> "spawn threw"]

\* The exception a listener throws from emit()
ListenerError == [kind |-> "listener", code |-> 0, text |-> "listener threw"]

\* ----------------------------------------------------------------- state
VARIABLES
    process,              \* this.process: Null or the call whose spawn made it
    sessionInfo,          \* this.sessionInfo: Null or the call that made the object
    sessions,             \* the OpenCodeSessionInfo objects, by creating call
    logStream,            \* this.logStream: Null or the call that opened it
    readableLogStream,    \* this.readableLogStream
    streams,              \* state of the write streams opened by each call
    messages,             \* this.messages
    pendingResultMessage, \* this.pendingResultMessage
    abortController,      \* this.abortController: Null or the call that made it
    errorListener,        \* an "error" listener is registered (config.onError)
    useServerMode,        \* config.useServerMode ?? false
    started,              \* number of start() calls that passed the running check
    pc,                   \* position of each accepted start() call
    waitP,                \* state of the promise awaited in runCLIMode
    waitErr,              \* the error that promise was rejected with
    returned,             \* the session info object each start() resolved with
    proc,                 \* state of the external process of each call
    stdoutData,           \* runCLIMode's stdoutData, as the lines received (until close)
    stderrData,           \* runCLIMode's stderrData
    exitCode,             \* the code the close event of each process carried
    stopped,              \* the calls whose session stop() ended while it ran
    events,               \* events emitted since the latest accepted start(), in order
    lastCall,             \* the latest synchronous API call and how it ended
    stdin,                \* process.stdin of the process each call spawned
    transport,            \* the LinearEventTransport and the webhook requests it handled
    server                \* the SharedApplicationServer, its promises, timers and clock

runnerVars == <<process, sessionInfo, sessions, logStream, readableLogStream,
                streams, messages, pendingResultMessage, abortController>>

vars == <<process, sessionInfo, sessions, logStream, readableLogStream,
          streams, messages, pendingResultMessage, abortController,
          errorListener, useServerMode, stdin, transport, server, started, pc, waitP, waitErr,
          returned, proc, stdoutData, stderrData, exitCode, stopped, events,
          lastCall>>

NoSession == [sessionId |-> NoId, isRunning |-> FALSE]

\* spawn(opencodePath, args, { stdio: ["ignore", "pipe", "pipe"] })
Stdio == <<"ignore", "pipe", "pipe">>

\* child.stdin of a process spawned with Stdio: a writable stream for
\* "pipe", null otherwise
ChildStdin == IF Stdio[1] = "pipe" THEN "open" ELSE "null"

\* ------------------------------------------------ LinearEventTransport
\* A signature header value: its length in bytes and, for a hex HMAC-SHA256
\* digest, the key and the bytes it was computed from.
NoSignature == [len |-> 0, key |-> "", msg |-> ""]
ShortSignature == [len |-> 5, key |-> "", msg |-> ""]

\* crypto.createHmac("sha256", key).update(msg).digest("hex")
Hmac(key, msg) == [len |-> 64, key |-> key, msg |-> msg]

\* A request body: the bytes received and JSON.stringify of the parsed body
Body(raw, json) == [raw |-> raw, json |-> json]

Secrets == {"s1", "s2"}
Bodies == {Body("{a:1}", "{a:1}"), Body("{ a: 1 }", "{a:1}"), Body("{b:2}", "{b:2}")}
Signatures ==
    {NoSignature, ShortSignature}
        \cup {Hmac(k, b.raw) : k \in Secrets, b \in Bodies}
AuthHeaders == {"", "Bearer s1", "Bearer s2", "s1", "bearer s1"}

\* A POST /webhook request; listenerThrows: an "event" listener throws
Requests ==
    [authorization : AuthHeaders, signature : Signatures, body : Bodies,
     listenerThrows : BOOLEAN]

NoRequest == [authorization |-> "", signature |-> NoSignature,
              body |-> Body("", ""), listenerThrows |-> FALSE]

\* The transport as constructed from a config, and the latest request it
\* handled: the reply's status code and the payloads emitted as "event".
\* rawBody: the server captures request.rawBody (used by the variant of
\* handleDirectWebhook that verifies through LinearWebhookClient).
Transport(mode, secret, rawBody) ==
    [verificationMode |-> mode, secret |-> secret, rawBody |-> rawBody,
     request |-> NoRequest, reply |-> 0, emitted |-> <<>>]

\* No LinearEventTransport has been constructed
NoTransport == Transport("none", "", FALSE)

\* ------------------------------------------------ SharedApplicationServer
\* Time is counted in minutes.
OAuthTimeout == 5          \* 5 * 60 * 1000 ms
ApprovalMaxAge == 30       \* 30 * 60 * 1000 ms
ClockSteps == {5, 30}      \* the time that passes between two callbacks

SessionIds == {"s1", "s2"}

\* A Map: a function whose domain is the set of keys
EmptyMap == [k \in {} |-> 0]
MapHas(m, k) == k \in DOMAIN m
MapSet(m, k, v) == [x \in DOMAIN m \cup {k} |-> IF x = k THEN v ELSE m[x]]
MapDelete(m, k) == [x \in DOMAIN m \ {k} |-> m[x]]
MapClear(m) == EmptyMap
MapValues(m) == {m[k] : k \in DOMAIN m}

\* A promise's reject(error): settles a pending promise, otherwise no effect
Reject(p, error) ==
    IF p.state = "pending"
    THEN [p EXCEPT !.state = "rejected", !.reason = error]
    ELSE p

\* The server as constructed.  token: process.env.CLOUDFLARE_TOKEN is set.
\* app: "null", or the state of the Fastify instance.  approvals and flows:
\* the promises registerApprovalRequest and startOAuthFlow returned, in the
\* order of the calls; the Maps hold their positions.
Server(skipTunnel, token) ==
    [skipTunnel |-> skipTunnel, token |-> token,
     app |-> "null", isListening |-> FALSE, tunnelClient |-> FALSE,
     pendingApprovals |-> EmptyMap, approvals |-> <<>>,
     oauthCallbacks |-> EmptyMap, flows |-> <<>>,
     now |-> 0, lastOp |-> "none"]

\* No SharedApplicationServer is in use
NoServer == Server(TRUE, FALSE)

InitRunner ==
    /\ process = Null
    /\ sessionInfo = Null
    /\ sessions = [i \in Calls |-> NoSession]
    /\ logStream = Null
    /\ readableLogStream = Null
    /\ streams = [i \in Calls |-> "none"]
    /\ messages = <<>>
    /\ pendingResultMessage = NoMsg
    /\ abortController = Null
    /\ errorListener \in BOOLEAN
    /\ started = 0
    /\ pc = [i \in Calls |-> "idle"]
    /\ waitP = [i \in Calls |-> "none"]
    /\ waitErr = [i \in Calls |-> NoError]
    /\ returned = [i \in Calls |-> Null]
    /\ proc = [i \in Calls |-> "none"]
    /\ stdoutData = [i \in Calls |-> <<>>]
    /\ stderrData = [i \in Calls |-> ""]
    /\ exitCode = [i \in Calls |-> NotExited]
    /\ stopped = {}
    /\ events = <<>>
    /\ lastCall = [op |-> "none", result |-> "none"]
    /\ stdin = [i \in Calls |-> "none"]

\* A Runner constructed for CLI mode (useServerMode absent or false)
Init ==
    InitRunner /\ useServerMode = FALSE /\ transport = NoTransport /\ server = NoServer

\* A Runner constructed with either value of config.useServerMode
InitStream ==
    InitRunner /\ useServerMode \in BOOLEAN /\ transport = NoTransport /\ server = NoServer

\* isRunning() as it would be if it looked at the process handle instead of
\* the session flag
IsRunning_ByProcessHandle == process # Null

\* isRunning(): this.sessionInfo?.isRunning ?? false
IsRunning == sessionInfo # Null /\ sessions[sessionInfo].isRunning

\* getMessages(): a copy of this.messages
GetMessages == messages

\* A start() continuation is queued as a microtask: it runs next.
NoMicrotask == \A i \in Calls : ~(pc[i] = "awaiting" /\ waitP[i] \in {"resolved", "rejected"})

\* ------------------------------------------------- parseOpenCodeOutput
\* output.trim().split("\n").filter((line) => line.trim())
NonBlank(output) == SelectSeq(output, LAMBDA l : l.kind # "blank")

ParseAcc(sid) == [sessionId |-> sid, text |-> "", input |-> 0, output |-> 0,
                  cost |-> 0, texts |-> <<>>]

\* case "step_start" with the first id kept instead of the last
CaseStepStart_FirstWins(acc, line) ==
    IF line.sessionID # NoId /\ acc.sessionId \in {NoId, SynthId}
    THEN [acc EXCEPT !.sessionId = line.sessionID]
    ELSE acc

\* case "step_start": if (event.sessionID) sessionInfo.sessionId = event.sessionID
CaseStepStart(acc, line) ==
    IF line.sessionID # NoId THEN [acc EXCEPT !.sessionId = line.sessionID]
    ELSE acc

\* case "text" with the fragment put in front of the accumulated text
CaseText_Prepend(acc, line) ==
    IF line.text # "" THEN
        [acc EXCEPT !.text = line.text \o acc.text,
                    !.texts = Append(acc.texts, line.text)]
    ELSE acc

\* case "text": if (part?.text) { accumulatedText += text; emit("text", text) }
CaseText(acc, line) ==
    IF line.text # "" THEN
        [acc EXCEPT !.text = acc.text \o line.text,
                    !.texts = Append(acc.texts, line.text)]
    ELSE acc

\* case "step_finish" with the totals overwritten instead of summed
CaseStepFinish_Overwrite(acc, line) ==
    [acc EXCEPT !.input = line.input, !.output = line.output, !.cost = line.cost]

\* case "step_finish": totals += tokens.input || 0, tokens.output || 0, cost
\* (a missing field is carried by the line as 0)
CaseStepFinish(acc, line) ==
    [acc EXCEPT !.input = acc.input + line.input,
                !.output = acc.output + line.output,
                !.cost = acc.cost + line.cost]

\* the loop body with the type tag of an event it does not handle added to
\* the accumulated text
ParseLine_EchoUnknown(acc, line) ==
    IF line.kind # "json" THEN acc
    ELSE IF line.type = "step_start" THEN CaseStepStart(acc, line)
    ELSE IF line.type = "text" THEN CaseText(acc, line)
    ELSE IF line.type = "step_finish" THEN CaseStepFinish(acc, line)
    ELSE [acc EXCEPT !.text = acc.text \o line.type]

\* One iteration of the for loop: JSON.parse(line) and the switch on event.type.
\* tool_call, tool_result, error and unknown types only log.
ParseLine(acc, line) ==
    IF line.kind # "json" THEN acc
    ELSE IF line.type = "step_start" THEN CaseStepStart(acc, line)
    ELSE IF line.type = "text" THEN CaseText(acc, line)
    ELSE IF line.type = "step_finish" THEN CaseStepFinish(acc, line)
    ELSE acc

RECURSIVE ParseLines(_, _)
ParseLines(acc, lines) ==
    IF lines = <<>> THEN acc
    ELSE ParseLines(ParseLine(acc, Head(lines)), Tail(lines))

\* parseOpenCodeOutput without the session id generated upfront
ParseOpenCodeOutput_NoSynth(output, sid) ==
    LET lines == NonBlank(output)
        acc == ParseLines(ParseAcc(sid), lines)
    IN  IF lines = <<>>
        THEN [sessionId |-> sid, texts |-> <<>>, assistant |-> NoMsg,
              pending |-> NoMsg, parsed |-> FALSE]
        ELSE [sessionId |-> acc.sessionId, texts |-> acc.texts,
              assistant |-> IF acc.text # ""
                            THEN AssistantMessage(acc.text, acc.sessionId)
                            ELSE NoMsg,
              pending |-> ResultMessage(acc.text, acc.input, acc.output,
                                        acc.cost, acc.sessionId),
              parsed |-> TRUE]

\* What parseOpenCodeOutput computes from the output and the session id the
\* current session info holds: the final id, the "text" events, the
\* assistant message (NoMsg when no text) and the pending result message
\* (NoMsg when the output has no line: the early return).
ParseOpenCodeOutput(output, sid) ==
    LET sid0 == IF sid = NoId THEN SynthId ELSE sid
        lines == NonBlank(output)
        acc == ParseLines(ParseAcc(sid0), lines)
    IN  IF lines = <<>>
        THEN [sessionId |-> sid0, texts |-> <<>>, assistant |-> NoMsg,
              pending |-> NoMsg, parsed |-> FALSE]
        ELSE [sessionId |-> acc.sessionId, texts |-> acc.texts,
              assistant |-> IF acc.text # ""
                            THEN AssistantMessage(acc.text, acc.sessionId)
                            ELSE NoMsg,
              pending |-> ResultMessage(acc.text, acc.input, acc.output,
                                        acc.cost, acc.sessionId),
              parsed |-> TRUE]

\* ----------------------------------------------------------------- events
Event(name, by, text, msg, list) ==
    [name |-> name, by |-> by, text |-> text, msg |-> msg, list |-> list]

TextEvents(texts, by) ==
    [k \in 1..Len(texts) |-> Event("text", by, texts[k], NoMsg, <<>>)]

\* emitMessage with the message put at the head of this.messages
EmitMessage_Unshift(ms, es, m, by) ==
    [messages |-> <<m>> \o ms,
     events |-> Append(es, Event("message", by, "", m, <<>>))]

\* emitMessage(message): push on this.messages and emit "message".
\* ms is the message list before the call, es the events before the call.
EmitMessage(ms, es, m, by) ==
    [messages |-> Append(ms, m),
     events |-> Append(es, Event("message", by, "", m, <<>>))]

\* logStream.end() of the stream(s) a field points at
EndStream(st, ptr) == IF ptr = Null THEN st ELSE [st EXCEPT ![ptr] = "ended"]

\* ---------------------------------------------------------------- actions
\* startWithPrompt while a session is running: the check at its top throws
\* before anything else is done.  op is the public method that was called.
StartWithPromptRejected(op) ==
    /\ NoMicrotask
    /\ IsRunning
    /\ lastCall' = [op |-> op, result |-> "AlreadyRunning"]
    /\ UNCHANGED <<process, sessionInfo, sessions, logStream,
                   readableLogStream, streams, messages, pendingResultMessage,
                   abortController, errorListener, useServerMode, stdin, transport, server, started, pc, waitP,
                   waitErr, returned, proc, stdoutData, stderrData, exitCode, stopped,
                   events>>

\* startWithPrompt, accepted: up to the await in runCLIMode.
\*   logOk  = FALSE: mkdirSync of the logs directory throws in setupLogging
\*   spawn  = "throw": spawn() throws; "enoent": the child reports "error"
StartWithPrompt(op, logOk, spawn) ==
    LET i == started + 1 IN
    /\ NoMicrotask
    /\ ~IsRunning
    /\ started < MaxCalls
    /\ started' = i
    /\ lastCall' = [op |-> op, result |-> "accepted"]
    /\ sessionInfo' = i
    /\ sessions' = [sessions EXCEPT ![i] = [sessionId |-> NoId, isRunning |-> TRUE]]
    /\ IF ~logOk
       THEN \* setupLogging throws outside the try block: start() rejects
            /\ streams' = EndStream(EndStream(streams, logStream), readableLogStream)
            /\ pc' = [pc EXCEPT ![i] = "rejected"]
            /\ UNCHANGED <<process, logStream, readableLogStream, messages,
                           abortController, waitP, waitErr, proc, stdin>>
       ELSE /\ streams' = [EndStream(EndStream(streams, logStream), readableLogStream)
                              EXCEPT ![i] = "open"]
            /\ logStream' = i
            /\ readableLogStream' = i
            /\ messages' = <<>>
            /\ abortController' = i
            /\ pc' = [pc EXCEPT ![i] = "awaiting"]
            /\ IF spawn = "throw"
               THEN /\ waitP' = [waitP EXCEPT ![i] = "rejected"]
                    /\ waitErr' = [waitErr EXCEPT ![i] = SpawnThrow]
                    /\ UNCHANGED <<process, proc, stdin>>
               ELSE /\ process' = i
                    /\ proc' = [proc EXCEPT ![i] = IF spawn = "ok" THEN "alive" ELSE "failed"]
                    /\ stdin' = [stdin EXCEPT ![i] = ChildStdin]
                    /\ waitP' = [waitP EXCEPT ![i] = "pending"]
                    /\ UNCHANGED waitErr
    /\ events' = <<>>
    /\ UNCHANGED <<pendingResultMessage, errorListener, useServerMode, transport, server,
                   returned, stdoutData, stderrData, exitCode, stopped>>

\* start(prompt) while a session is running
StartRejected == StartWithPromptRejected("start")

\* start(prompt), accepted
Start(logOk, spawn) == StartWithPrompt("start", logOk, spawn)

\* process.stdout "data": the chunk is appended to stdoutData, nothing else.
StdoutData(i, line) ==
    /\ NoMicrotask
    /\ proc[i] \in {"alive", "signalled"}
    /\ Len(stdoutData[i]) < MaxLines
    /\ stdoutData' = [stdoutData EXCEPT ![i] = Append(@, line)]
    /\ UNCHANGED <<process, sessionInfo, sessions, logStream,
                   readableLogStream, streams, messages, pendingResultMessage,
                   abortController, errorListener, useServerMode, stdin, transport, server, started, pc, waitP,
                   waitErr, returned, proc, stderrData, exitCode, stopped, events,
                   lastCall>>

\* process.stderr "data"
StderrData(i) ==
    /\ NoMicrotask
    /\ proc[i] \in {"alive", "signalled"}
    /\ stderrData[i] = ""
    /\ stderrData' = [stderrData EXCEPT ![i] = "boom"]
    /\ UNCHANGED exitCode
    /\ UNCHANGED <<process, sessionInfo, sessions, logStream,
                   readableLogStream, streams, messages, pendingResultMessage,
                   abortController, errorListener, useServerMode, stdin, transport, server, started, pc, waitP,
                   waitErr, returned, proc, stdoutData, stopped, events, lastCall>>

\* process "error" (the executable could not be launched): reject(err)
ProcessError(i) ==
    /\ NoMicrotask
    /\ proc[i] = "failed"
    /\ proc' = [proc EXCEPT ![i] = "errored"]
    /\ waitP' = [waitP EXCEPT ![i] = IF @ = "pending" THEN "rejected" ELSE @]
    /\ waitErr' = [waitErr EXCEPT ![i] = IF waitP[i] = "pending" THEN SpawnError ELSE @]
    /\ UNCHANGED <<process, sessionInfo, sessions, logStream,
                   readableLogStream, streams, messages, pendingResultMessage,
                   abortController, errorListener, useServerMode, stdin, transport, server, started, pc, returned,
                   stdoutData, stderrData, exitCode, stopped, events, lastCall>>

\* the test of the close handler with the output parsed whatever the code
ParsesOutput_AnyCode(code) == TRUE

\* if (code === 0) in the close handler: the output is parsed only then
ParsesOutput(code) == code = 0

\* process "close" with exit code `code`: on 0 parseOpenCodeOutput runs on
\* the Runner's current fields and the wait resolves, otherwise it rejects.
\* thr is the set of events ("message", "assistant") whose listener throws:
\* the exception leaves parseOpenCodeOutput before the pending result is
\* set and the close handler rejects the wait with it.  (A "text" listener
\* that throws is caught by the try block around each line.)
\* stdoutData and stderrData are locals of runCLIMode that nothing reads
\* after this handler; the model releases them when the start() call settles.
ProcessCloseWith(i, code, thr) ==
    /\ NoMicrotask
    /\ \/ proc[i] = "alive" /\ code \in ExitCodes
       \/ proc[i] = "signalled" /\ code \in ExitCodes \cup {NullCode}
       \/ proc[i] = "errored" /\ code = SpawnErrCode
    /\ proc' = [proc EXCEPT ![i] = "closed"]
    /\ IF ParsesOutput(code)
       THEN LET r == ParseOpenCodeOutput(stdoutData[i], sessions[sessionInfo].sessionId)
                es == events \o TextEvents(r.texts, i)
                hasText == r.assistant # NoMsg
                threwMessage == hasText /\ "message" \in thr
                threw == hasText /\ thr # {}
                em == IF hasText
                      THEN LET e == EmitMessage(messages, es, r.assistant, i)
                           IN  IF threwMessage THEN e
                               ELSE [e EXCEPT !.events =
                                       Append(@, Event("assistant", i, r.assistant.text, NoMsg, <<>>))]
                      ELSE [messages |-> messages, events |-> es]
            IN  /\ sessions' = [sessions EXCEPT ![sessionInfo].sessionId = r.sessionId]
                /\ messages' = em.messages
                /\ events' = em.events
                /\ pendingResultMessage' = IF r.parsed /\ ~threw THEN r.pending
                                           ELSE pendingResultMessage
                /\ waitP' = [waitP EXCEPT ![i] =
                                IF @ # "pending" THEN @
                                ELSE IF threw THEN "rejected" ELSE "resolved"]
                /\ waitErr' = [waitErr EXCEPT ![i] =
                                 IF waitP[i] = "pending" /\ threw THEN ListenerError ELSE @]
       ELSE /\ waitP' = [waitP EXCEPT ![i] = IF @ = "pending" THEN "rejected" ELSE @]
            /\ waitErr' = [waitErr EXCEPT ![i] =
                             IF waitP[i] = "pending" THEN ExitError(code, stderrData[i]) ELSE @]
            /\ UNCHANGED <<sessions, messages, events, pendingResultMessage>>
    /\ exitCode' = [exitCode EXCEPT ![i] = code]
    /\ UNCHANGED <<stdoutData, stderrData>>
    /\ UNCHANGED <<process, sessionInfo, logStream, readableLogStream, streams,
                   abortController, errorListener, useServerMode, stdin, transport, server, started, pc, returned,
                   stopped, lastCall>>

\* process "close" when no listener throws
ProcessClose(i, code) == ProcessCloseWith(i, code, {})

\* the finally block without `this.process = null`
Finally_KeepsHandle(st) ==
    [process |-> process, pendingResultMessage |-> NoMsg, abortController |-> Null,
     logStream |-> Null, readableLogStream |-> Null,
     streams |-> EndStream(EndStream(st, logStream), readableLogStream)]

\* The finally block of startWithPrompt
Finally(st) ==
    [process |-> Null, pendingResultMessage |-> NoMsg, abortController |-> Null,
     logStream |-> Null, readableLogStream |-> Null,
     streams |-> EndStream(EndStream(st, logStream), readableLogStream)]

\* The rest of startWithPrompt after the await: the try block's tail when the
\* wait resolved, the catch block when it rejected or when the tail threw,
\* then the finally block.  thr is the set of events ("message", "complete")
\* whose listener throws when the event is emitted.
ContinueWith(i, thr) ==
    LET sid == sessions[sessionInfo].sessionId
        none == [messages |-> messages, events |-> events]
        \* try: emitMessage(pendingResultMessage), emit("complete", messages)
        hasPending == waitP[i] = "resolved" /\ pendingResultMessage # NoMsg
        tryEm == IF hasPending
                 THEN EmitMessage(messages, events, pendingResultMessage, i)
                 ELSE none
        threwMessage == hasPending /\ "message" \in thr
        threwComplete == waitP[i] = "resolved" /\ ~threwMessage /\ "complete" \in thr
        afterTry == IF waitP[i] # "resolved" THEN none
                    ELSE IF threwMessage THEN tryEm
                    ELSE [tryEm EXCEPT !.events =
                            Append(@, Event("complete", i, "", NoMsg, tryEm.messages))]
        \* catch: emitMessage(errorResult), emit("error", error)
        inCatch == waitP[i] = "rejected" \/ threwMessage \/ threwComplete
        err == IF waitP[i] = "rejected" THEN waitErr[i] ELSE ListenerError
        catchEm == EmitMessage(afterTry.messages, afterTry.events, ErrorResult(err, sid), i)
        catchThrew == "message" \in thr \/ ~errorListener
        f == Finally(streams)
    IN
    /\ pc[i] = "awaiting"
    /\ waitP[i] \in {"resolved", "rejected"}
    /\ sessions' = [sessions EXCEPT ![sessionInfo].isRunning = FALSE]
    /\ IF ~inCatch
       THEN /\ messages' = afterTry.messages
            /\ events' = afterTry.events
            /\ pc' = [pc EXCEPT ![i] = "resolved"]
            /\ returned' = [returned EXCEPT ![i] = sessionInfo]
       ELSE /\ messages' = catchEm.messages
            /\ IF ~catchThrew
               THEN /\ events' = Append(catchEm.events, Event("error", i, "", NoMsg, <<>>))
                    /\ pc' = [pc EXCEPT ![i] = "resolved"]
                    /\ returned' = [returned EXCEPT ![i] = sessionInfo]
               ELSE \* the listener's exception, or emit("error") without a
                    \* listener, leaves the catch block: start() rejects
                    /\ events' = catchEm.events
                    /\ pc' = [pc EXCEPT ![i] = "rejected"]
                    /\ UNCHANGED returned
    /\ process' = f.process
    /\ pendingResultMessage' = f.pendingResultMessage
    /\ abortController' = f.abortController
    /\ logStream' = f.logStream
    /\ readableLogStream' = f.readableLogStream
    /\ streams' = f.streams
    /\ waitErr' = [waitErr EXCEPT ![i] = NoError]
    /\ stdoutData' = [stdoutData EXCEPT ![i] = <<>>]
    /\ stderrData' = [stderrData EXCEPT ![i] = ""]
    /\ exitCode' = [exitCode EXCEPT ![i] = NotExited]
    /\ UNCHANGED <<sessionInfo, errorListener, useServerMode, stdin, transport, server, started, waitP, proc,
                   stopped, lastCall>>

\* The continuation when no listener throws
Continue(i) == ContinueWith(i, {})

\* stop()
Stop ==
    /\ NoMicrotask
    /\ abortController' = Null
    /\ process' = Null
    /\ proc' = IF process # Null /\ proc[process] = "alive"
               THEN [proc EXCEPT ![process] = "signalled"]
               ELSE proc
    /\ sessions' = IF sessionInfo # Null
                   THEN [sessions EXCEPT ![sessionInfo].isRunning = FALSE]
                   ELSE sessions
    /\ stopped' = IF IsRunning THEN stopped \cup {sessionInfo} ELSE stopped
    /\ lastCall' = [op |-> "stop", result |-> "ok"]
    /\ UNCHANGED <<sessionInfo, logStream, readableLogStream, streams, messages,
                   pendingResultMessage, errorListener, useServerMode, stdin, transport, server, started, pc, waitP,
                   waitErr, returned, stdoutData, stderrData, exitCode, events>>

Next ==
    \/ StartRejected
    \/ \E logOk \in BOOLEAN, spawn \in {"ok", "enoent", "throw"} : Start(logOk, spawn)
    \/ \E i \in Calls, line \in StreamLines : StdoutData(i, line)
    \/ \E i \in Calls : ProcessError(i)
    \/ \E i \in Calls, code \in ExitCodes \cup {NullCode, SpawnErrCode} : ProcessClose(i, code)
    \/ \E i \in Calls : Continue(i)
    \/ Stop

\* Any interleaving of start(), stop() and the callbacks of the processes.
\* What a process writes to stderr only ends up in the text of an exit
\* error; the stderr handler is exercised in SpecSession.
Spec == Init /\ [][Next]_vars

\* ------------------------------------------------ one session, any output
\* One start() on a fresh Runner whose process writes lines of SessionLines
\* and exits; nothing else is called on the Runner.
SessionStart == started = 0 /\ Start(TRUE, "ok")
SessionStdout == \E line \in SessionLines : StdoutData(1, line)
SessionStderr == StderrData(1)
SessionClose == \E code \in ExitCodes : ProcessClose(1, code)
SessionContinue == Continue(1)

NextSession ==
    \/ SessionStart
    \/ SessionStdout
    \/ SessionStderr
    \/ SessionClose
    \/ SessionContinue

SpecSession == Init /\ [][NextSession]_vars

\* ------------------------------------------------- throwing listeners
\* start() calls made one after the other (no stop()), with subscribers
\* whose "message", "assistant" and "complete" listeners may throw.
ListenerStart == Start(TRUE, "ok")
ListenerStdout == \E i \in Calls, line \in StreamLines : StdoutData(i, line)
ListenerClose ==
    \E i \in Calls, code \in ExitCodes, thr \in SUBSET {"message", "assistant"} :
        ProcessCloseWith(i, code, thr)
ListenerContinue ==
    \E i \in Calls, thr \in SUBSET {"message", "complete"} : ContinueWith(i, thr)

NextListener ==
    \/ ListenerStart
    \/ ListenerStdout
    \/ ListenerClose
    \/ ListenerContinue

SpecListener == Init /\ [][NextListener]_vars

\* ------------------------------------------------------- streaming input
\* this.supportsStreamingInput = config.useServerMode ?? false, and the
\* checks `!this.config.useServerMode` of the streaming methods
StreamingSupported_Always == TRUE

StreamingSupported == useServerMode

UnchangedByStreamCall ==
    UNCHANGED <<process, sessionInfo, sessions, logStream, readableLogStream,
                streams, messages, pendingResultMessage, abortController,
                errorListener, useServerMode, transport, server, started, pc, waitP,
                waitErr, returned, proc, stdoutData, stderrData, exitCode,
                stopped, events>>

\* startStreaming(initialPrompt) outside server mode: throws
StartStreamingUnsupported ==
    /\ NoMicrotask
    /\ ~StreamingSupported
    /\ lastCall' = [op |-> "startStreaming", result |-> "UnsupportedMode"]
    /\ UnchangedByStreamCall
    /\ UNCHANGED stdin

\* startStreaming(initialPrompt) in server mode: startWithPrompt(null, prompt)
StartStreamingRejected ==
    /\ StreamingSupported
    /\ StartWithPromptRejected("startStreaming")

StartStreaming(logOk, spawn) ==
    /\ StreamingSupported
    /\ StartWithPrompt("startStreaming", logOk, spawn)

\* addStreamMessage(content): throws outside server mode, otherwise only logs
AddStreamMessage ==
    /\ NoMicrotask
    /\ lastCall' = [op |-> "addStreamMessage",
                    result |-> IF StreamingSupported THEN "ok" ELSE "UnsupportedMode"]
    /\ UnchangedByStreamCall
    /\ UNCHANGED stdin

\* completeStream(): no mode check.  It ends this.process.stdin when there is
\* one that is not destroyed; runCLIMode spawns with stdio
\* ["ignore", "pipe", "pipe"], so the child's stdin is null.
CompleteStream ==
    /\ NoMicrotask
    /\ lastCall' = [op |-> "completeStream", result |-> "ok"]
    /\ stdin' = IF process # Null /\ stdin[process] = "open"
                THEN [stdin EXCEPT ![process] = "ended"]
                ELSE stdin
    /\ UnchangedByStreamCall

\* The streaming calls among start(), stop() and the callbacks of the
\* processes.  What a process writes does not matter to them: one line
\* stands for all (Spec and SpecSession vary the lines).
NextStream ==
    \/ StartStreamingUnsupported
    \/ StartStreamingRejected
    \/ StartStreaming(TRUE, "ok")
    \/ AddStreamMessage
    \/ CompleteStream
    \/ StartRejected
    \/ Start(TRUE, "ok")
    \/ \E i \in Calls : StdoutData(i, TextLine("Hi "))
    \/ \E i \in Calls, code \in ExitCodes \cup {NullCode} : ProcessClose(i, code)
    \/ \E i \in Calls : Continue(i)
    \/ Stop

SpecStream == InitStream /\ [][NextStream]_vars

\* --------------------------------------------------- webhook handlers
\* the signature check with the key left out of the comparison
SignatureCheck_AnyKey(secret, bytes, signature) ==
    IF signature.len # Hmac(secret, bytes).len THEN "throws"
    ELSE IF signature.msg = bytes THEN "valid"
    ELSE "invalid"

\* The signature check of handleDirectWebhook: the HMAC of the bytes under
\* the secret compared with the header by crypto.timingSafeEqual, which
\* throws when the lengths differ (LinearWebhookClient.verify in the other
\* variant of the file: it compares the same two values).
SignatureCheck(secret, bytes, signature) ==
    IF signature.len # Hmac(secret, bytes).len THEN "throws"
    ELSE IF signature = Hmac(secret, bytes) THEN "valid"
    ELSE "invalid"

\* The bytes the signature is verified against: request.rawBody when the
\* server captured it, otherwise JSON.stringify(request.body)
BodyBytes(t, req) == IF t.rawBody THEN req.body.raw ELSE req.body.json

Reply(status, emitted) == [status |-> status, emitted |-> emitted]

\* this.emit("event", request.body) followed by reply.code(200); when a
\* listener throws, the catch block of the handler replies `caught`
EmitEvent(req, caught) ==
    IF req.listenerThrows THEN Reply(caught, <<req.body.json>>)
    ELSE Reply(200, <<req.body.json>>)

\* handleDirectWebhook(request, reply)
HandleDirectWebhook(t, req) ==
    IF t.verificationMode # "direct" THEN Reply(500, <<>>)
    ELSE IF req.signature = NoSignature THEN Reply(401, <<>>)
    ELSE IF SignatureCheck(t.secret, BodyBytes(t, req), req.signature) # "valid"
         THEN Reply(401, <<>>)
    ELSE EmitEvent(req, 401)

\* `Bearer ${this.config.secret}`
ExpectedAuth(secret) == "Bearer " \o secret

\* handleProxyWebhook(request, reply)
HandleProxyWebhook(t, req) ==
    IF req.authorization = "" THEN Reply(401, <<>>)
    ELSE IF req.authorization # ExpectedAuth(t.secret) THEN Reply(401, <<>>)
    ELSE EmitEvent(req, 500)

\* The POST /webhook route handler installed by register()
Webhook(req) ==
    LET r == IF transport.verificationMode = "direct"
             THEN HandleDirectWebhook(transport, req)
             ELSE HandleProxyWebhook(transport, req)
    IN  /\ transport.verificationMode # "none"
        /\ transport' = [transport EXCEPT !.request = req,
                                          !.reply = r.status,
                                          !.emitted = r.emitted]
        /\ UNCHANGED <<runnerVars, errorListener, useServerMode, started, pc,
                       waitP, waitErr, returned, proc, stdoutData, stderrData,
                       exitCode, stopped, events, lastCall, stdin, server>>

\* A transport constructed in either mode, beside an idle Runner
InitTransport ==
    /\ InitRunner
    /\ errorListener = FALSE
    /\ useServerMode = FALSE
    /\ transport \in {Transport(m, k, rb) : m \in {"direct", "proxy"},
                                            k \in Secrets, rb \in BOOLEAN}
    /\ server = NoServer

NextTransport == \E req \in Requests : Webhook(req)

SpecTransport == InitTransport /\ [][NextTransport]_vars

\* ------------------------------------------------ SharedApplicationServer
UnchangedByServer ==
    UNCHANGED <<runnerVars, errorListener, useServerMode, stdin, transport,
                started, pc, waitP, waitErr, returned, proc, stdoutData,
                stderrData, exitCode, stopped, events, lastCall>>

\* initializeFastify(): creates the instance unless there is one
InitializeFastify(app) == IF app = "null" THEN "created" ELSE app

\* app.listen() resolves only on an instance that has never listened and
\* whose port could be bound (portFree); Fastify rejects listen() on an
\* instance that is listening or was closed
ListenResolves(app, portFree) == app = "created" /\ portFree

\* start(), run to its end.  portFree: the port can be bound; tunnelOk: the
\* tunnel reports its four connections (otherwise startCloudflareTunnel
\* rejects: an "error" event, a failed startTunnel(), or the 30 s timeout)
ServerStart(portFree, tunnelOk) ==
    LET app == InitializeFastify(server.app)
        wantTunnel == ~server.skipTunnel /\ server.token
    IN  /\ server' =
               IF server.isListening
               THEN [server EXCEPT !.lastOp = "start:returned"]
               ELSE IF ~ListenResolves(app, portFree)
               THEN [server EXCEPT !.app = app,
                                   !.isListening = FALSE,
                                   !.lastOp = "start:threw"]
               ELSE IF wantTunnel /\ ~tunnelOk
               THEN [server EXCEPT !.app = "listening",
                                   !.tunnelClient = TRUE,
                                   !.isListening = FALSE,
                                   !.lastOp = "start:threw"]
               ELSE [server EXCEPT !.app = "listening",
                                   !.tunnelClient = wantTunnel \/ @,
                                   !.isListening = TRUE,
                                   !.lastOp = "start:returned"]
        /\ UnchangedByServer

\* The approvals stop() rejects: those the Map holds
RejectedOnStop(s) == MapValues(s.pendingApprovals)

\* stop(), run to its end
ServerStop ==
    LET closes == server.app # "null" /\ server.isListening
        rejected == RejectedOnStop(server)
    IN  /\ server' =
               [server EXCEPT
                   !.approvals =
                       [n \in DOMAIN @ |->
                           IF n \in rejected
                           THEN Reject(@[n], "Server shutting down")
                           ELSE @[n]],
                   !.pendingApprovals = MapClear(@),
                   !.tunnelClient = FALSE,
                   !.app = IF closes THEN "closed" ELSE @,
                   !.isListening = IF closes THEN FALSE ELSE @,
                   !.lastOp = "stop:returned"]
        /\ UnchangedByServer

\* registerApprovalRequest(sessionId)
RegisterApprovalRequest(sessionId) ==
    LET now == server.now
        pending == server.pendingApprovals
        expired == {k \in DOMAIN pending :
                       now - server.approvals[pending[k]].createdAt
                           > ApprovalMaxAge}
        kept == [k \in DOMAIN pending \ expired |-> pending[k]]
        n == Len(server.approvals) + 1
        promise == [sessionId |-> sessionId, createdAt |-> now,
                    state |-> "pending", reason |-> ""]
    IN  /\ Len(server.approvals) < MaxApprovals
        /\ server' =
               [server EXCEPT
                   !.approvals =
                       Append([i \in DOMAIN @ |->
                                  IF i \in {pending[k] : k \in expired}
                                  THEN Reject(@[i], "Approval request expired")
                                  ELSE @[i]],
                              promise),
                   !.pendingApprovals = MapSet(kept, sessionId, n),
                   !.lastOp = "registerApprovalRequest:returned"]
        /\ UnchangedByServer

\* The flow id startOAuthFlow makes of the time: Date.now().toString(),
\* one id for each millisecond (here: each clock value)
FlowId(s) == s.now

\* startOAuthFlow(proxyUrl): registers the callback and arms the timer
StartOAuthFlow ==
    LET flowId == FlowId(server)
        n == Len(server.flows) + 1
        promise == [id |-> flowId, deadline |-> server.now + OAuthTimeout,
                    timer |-> "armed", state |-> "pending", reason |-> ""]
    IN  /\ Len(server.flows) < MaxFlows
        /\ server.now + OAuthTimeout <= MaxClock
        /\ server' = [server EXCEPT
                         !.flows = Append(@, promise),
                         !.oauthCallbacks = MapSet(@, flowId, n),
                         !.lastOp = "startOAuthFlow:returned"]
        /\ UnchangedByServer

\* The setTimeout callback of flow f.  Timers run in the order of their
\* deadlines, and of their creation for equal deadlines.
OAuthTimer(f) ==
    LET flow == server.flows[f]
    IN  /\ f \in DOMAIN server.flows
        /\ flow.timer = "armed"
        /\ server.now >= flow.deadline
        /\ \A g \in 1..(f - 1) : server.flows[g].timer = "fired"
        /\ server' =
               IF MapHas(server.oauthCallbacks, flow.id)
               THEN [server EXCEPT
                        !.oauthCallbacks = MapDelete(@, flow.id),
                        !.flows[f] = [Reject(flow, "OAuth timeout")
                                          EXCEPT !.timer = "fired"],
                        !.lastOp = "timer"]
               ELSE [server EXCEPT !.flows[f].timer = "fired",
                                   !.lastOp = "timer"]
        /\ UnchangedByServer

\* Time passes
Tick(d) ==
    /\ server.now + d <= MaxClock
    /\ server' = [server EXCEPT !.now = @ + d, !.lastOp = "tick"]
    /\ UnchangedByServer

\* A server constructed with either value of skipTunnel, with or without a
\* Cloudflare token in the environment, beside an idle Runner
InitServer ==
    /\ InitRunner
    /\ errorListener = FALSE
    /\ useServerMode = FALSE
    /\ transport = NoTransport
    /\ server \in {Server(st, tok) : st \in BOOLEAN, tok \in BOOLEAN}

\* start(), stop() and registerApprovalRequest() called one after the other
NextServer ==
    \/ \E portFree \in BOOLEAN, tunnelOk \in BOOLEAN :
           ServerStart(portFree, tunnelOk)
    \/ ServerStop
    \/ \E sessionId \in SessionIds : RegisterApprovalRequest(sessionId)
    \/ \E d \in ClockSteps : Tick(d)

SpecServer == InitServer /\ [][NextServer]_vars

\* OAuth flows and their timers
NextOAuth ==
    \/ StartOAuthFlow
    \/ \E f \in 1..MaxFlows : OAuthTimer(f)
    \/ \E d \in ClockSteps : Tick(d)

SpecOAuth == InitServer /\ [][NextOAuth]_vars

\* The event loop runs every timer that is due, and time keeps passing
SpecOAuthFair ==
    /\ SpecOAuth
    /\ WF_vars(\E f \in 1..MaxFlows : OAuthTimer(f))
    /\ WF_vars(\E d \in ClockSteps : Tick(d))

\* ------------------------------------------------------------ properties
Settled == {"resolved", "rejected"}
Live == {"alive", "signalled", "failed"}

NumOfType(ms, t) == Cardinality({k \in 1..Len(ms) : ms[k].type = t})
EventsOf(i, name) == {k \in 1..Len(events) : events[k].by = i /\ events[k].name = name}
TextLinesOf(output) ==
    {k \in 1..Len(output) : output[k].kind = "json" /\ output[k].type = "text"
                            /\ output[k].text # ""}

\* The step is a callback of call i's process or the continuation of call i.
StepOf(i) ==
    \/ proc[i] \in Live \cup {"errored"} /\ proc'[i] # proc[i] /\ proc'[i] \in {"errored", "closed"}
    \/ pc[i] = "awaiting" /\ pc'[i] # "awaiting"

\* C1: once the latest start() call that got as far as waiting for its
\* process has settled, getMessages() holds exactly one `result` message.
C1_ExactlyOneResult ==
    \A i \in Calls :
        (i = started /\ waitP[i] # "none" /\ pc[i] \in Settled)
            => NumOfType(GetMessages, "result") = 1

\* C2: a start() made while the session flag is set is answered with
\* AlreadyRunning, accepts no call, spawns no process and changes no field
\* of the Runner.
C2_AlreadyRunning ==
    [][(sessionInfo # Null /\ sessions[sessionInfo].isRunning) =>
          /\ started' = started
          /\ \A i \in Calls : proc[i] = "none" => proc'[i] = "none"
          /\ (lastCall' # lastCall /\ lastCall'.op = "start") =>
                /\ lastCall'.result = "AlreadyRunning"
                /\ UNCHANGED <<runnerVars, pc, waitP, proc, events>>]_vars

C2_Witness ==
    /\ lastCall = [op |-> "start", result |-> "AlreadyRunning"]
    /\ sessionInfo # Null /\ sessions[sessionInfo].isRunning
    /\ process # Null /\ proc[process] = "alive"
    /\ Len(stdoutData[process]) > 0

\* C3: at most one start() call is awaiting its process, and at most one
\* spawned process has not yet reported its exit.
C3_AtMostOneSession ==
    /\ Cardinality({i \in Calls : pc[i] = "awaiting"}) <= 1
    /\ Cardinality({i \in Calls : proc[i] \in Live}) <= 1

\* C4: a callback of the process of call i, or the continuation of call i,
\* leaves the session of a later call that is in flight as it was: its message log, its
\* session info, the process handle, the cancellation token, the log streams.
C4_NoCrossSession ==
    [][\A i \in Calls :
          (sessionInfo # Null /\ i < sessionInfo /\ pc[sessionInfo] = "awaiting"
             /\ StepOf(i)) =>
              /\ messages' = messages
              /\ sessions'[sessionInfo] = sessions[sessionInfo]
              /\ process' = process
              /\ abortController' = abortController
              /\ logStream' = logStream
              /\ readableLogStream' = readableLogStream
              /\ streams'[sessionInfo] = streams[sessionInfo]]_vars

\* C5: isRunning() is true only while an accepted start() call is in flight.
C5_RunningOnlyInFlight ==
    (sessionInfo # Null /\ sessions[sessionInfo].isRunning)
        => \E i \in Calls : pc[i] = "awaiting"

\* C6: the start() call of a session that stop() ended appends no `result`
\* message when it settles.
C6_NoResultAfterStop ==
    [][\A i \in Calls :
          (i \in stopped /\ pc[i] = "awaiting" /\ pc'[i] # "awaiting")
              => NumOfType(messages', "result") = NumOfType(messages, "result")]_vars

\* C7: a start() call whose wait was rejected (spawn failure, non-zero exit)
\* resolves with a session info that is not running, an `error` event was
\* emitted and an error result is in the message log.
C7_FailureResolves ==
    \A i \in Calls :
        (waitP[i] = "rejected" /\ pc[i] # "awaiting") =>
            /\ pc[i] = "resolved"
            /\ ~sessions[returned[i]].isRunning
            /\ (i = started =>
                  /\ EventsOf(i, "error") # {}
                  /\ \E k \in 1..Len(messages) :
                        messages[k].type = "result" /\ messages[k].is_error)

\* C8: once the latest start() call that got as far as waiting for its
\* process has settled, it has emitted exactly one `complete` event, whose
\* list holds exactly one `result` message.
C8_OneComplete ==
    \A i \in Calls :
        (i = started /\ waitP[i] # "none" /\ pc[i] \in Settled) =>
            /\ Cardinality(EventsOf(i, "complete")) = 1
            /\ \A k \in EventsOf(i, "complete") :
                  NumOfType(events[k].list, "result") = 1

\* C9: while a process is alive, every text line received from it has been
\* delivered as a `text` event.
C9_TextStreamed ==
    \A i \in Calls :
        proc[i] \in {"alive", "signalled"} =>
            Cardinality(EventsOf(i, "text")) = Cardinality(TextLinesOf(stdoutData[i]))

\* C10: while isRunning() is false the message log does not change, except
\* by a start() that is accepted.
C10_FrozenLog ==
    [][(~(sessionInfo # Null /\ sessions[sessionInfo].isRunning) /\ started' = started)
          => messages' = messages]_vars

\* C11: once stop() has ended a session, the wait of that session's start()
\* call is no longer pending (it was cancelled), whether or not the process
\* has reported its exit.
C11_StopCancelsWait ==
    \A i \in Calls : (i \in stopped /\ pc[i] = "awaiting") => waitP[i] # "pending"

\* The step in which start() call i runs on after its wait, the process
\* having closed with a code in `codes`.
SettlesAfterExit(i, codes) ==
    /\ pc[i] = "awaiting" /\ pc'[i] # "awaiting"
    /\ proc[i] = "closed" /\ exitCode[i] \in codes

LastOf(ms) == ms[Len(ms)]

\* C12: when the process exited with a non-zero code, the result appended
\* when the call settles has is_error = true, carries the exit code and the
\* captured stderr text ("Unknown error" when there was none), and has zero
\* usage and cost.
C12_NonZeroExit ==
    [][\A i \in Calls :
          SettlesAfterExit(i, {137, NullCode}) =>
              /\ Len(messages') = Len(messages) + 1
              /\ LastOf(messages').type = "result"
              /\ LastOf(messages').is_error
              /\ Len(LastOf(messages').errors) = 1
              /\ LastOf(messages').errors[1].code = exitCode[i]
              /\ LastOf(messages').errors[1].text =
                    (IF stderrData[i] = "" THEN "Unknown error" ELSE stderrData[i])
              /\ LastOf(messages').input_tokens = 0
              /\ LastOf(messages').output_tokens = 0
              /\ LastOf(messages').total_cost_usd = 0]_vars

C12_Witness ==
    \E k \in 1..Len(messages) :
        /\ messages[k].type = "result" /\ messages[k].is_error
        /\ messages[k].errors[1].code = 137
        /\ messages[k].errors[1].text = "boom"

IsTextLine(l) == l.kind = "json" /\ l.type = "text"
IsStepFinish(l) == l.kind = "json" /\ l.type = "step_finish"
IsStepStartWithId(l) == l.kind = "json" /\ l.type = "step_start" /\ l.sessionID # NoId

\* The text fragments of an output, concatenated in arrival order
RECURSIVE ConcatFragments(_)
ConcatFragments(output) ==
    IF output = <<>> THEN ""
    ELSE (IF IsTextLine(Head(output)) THEN Head(output).text ELSE "")
             \o ConcatFragments(Tail(output))

RECURSIVE SumSeq(_)
SumSeq(xs) == IF xs = <<>> THEN 0 ELSE Head(xs) + SumSeq(Tail(xs))

MsgsOfType(ms, t) == {k \in 1..Len(ms) : ms[k].type = t}

\* C13: for a process that exited 0, every assistant message and every
\* result in the log when the call settles carries the concatenation of the
\* text fragments in arrival order, and both exist when that text is not empty.
C13_TextInArrivalOrder ==
    [][SettlesAfterExit(1, {0}) =>
          LET t == ConcatFragments(stdoutData[1]) IN
          /\ \A k \in 1..Len(messages') : messages'[k].text = t
          /\ t # "" => /\ Cardinality(MsgsOfType(messages', "assistant")) = 1
                       /\ Cardinality(MsgsOfType(messages', "result")) = 1]_vars

C13_Witness ==
    /\ pc[1] = "resolved"
    /\ Len(messages) = 2
    /\ messages[1].type = "assistant" /\ messages[1].text = "Hi there"
    /\ messages[2].type = "result" /\ messages[2].text = "Hi there"

\* C14: for a process that exited 0, the result in the log when the call
\* settles carries the sums of input tokens, output tokens and cost over
\* the step_finish lines.
C14_UsageTotals ==
    [][SettlesAfterExit(1, {0}) =>
          LET out == stdoutData[1]
              fin(k) == IsStepFinish(out[k])
              inSum == SumSeq([k \in 1..Len(out) |-> IF fin(k) THEN out[k].input ELSE 0])
              outSum == SumSeq([k \in 1..Len(out) |-> IF fin(k) THEN out[k].output ELSE 0])
              costSum == SumSeq([k \in 1..Len(out) |-> IF fin(k) THEN out[k].cost ELSE 0])
          IN  \A k \in MsgsOfType(messages', "result") :
                  /\ messages'[k].input_tokens = inSum
                  /\ messages'[k].output_tokens = outSum
                  /\ messages'[k].total_cost_usd = costSum]_vars

C14_Witness ==
    /\ pc[1] = "resolved"
    /\ \E k \in 1..Len(messages) :
          /\ messages[k].type = "result"
          /\ messages[k].input_tokens = 13
          /\ messages[k].output_tokens = 6
          /\ messages[k].total_cost_usd = 2

\* The output with every unparseable line removed
WithoutBad(output) == SelectSeq(output, LAMBDA l : l.kind # "bad")

\* The messages a fresh session ends with for an output that exits 0
MessagesFor(output) ==
    LET r == ParseOpenCodeOutput(output, NoId)
    IN  (IF r.assistant # NoMsg THEN <<r.assistant>> ELSE <<>>)
            \o (IF r.pending # NoMsg THEN <<r.pending>> ELSE <<>>)

\* C15: for a process that exited 0, the log and the session id when the
\* call settles are those of the same output without its unparseable lines.
C15_BadLinesSkipped ==
    [][SettlesAfterExit(1, {0}) =>
          /\ messages' = MessagesFor(WithoutBad(stdoutData[1]))
          /\ sessions'[1].sessionId =
                ParseOpenCodeOutput(WithoutBad(stdoutData[1]), NoId).sessionId]_vars

\* C16: for a process that exited 0 with output of which no line parses, the
\* terminal message is an error result with zero usage and cost.
C16_AllBadIsFailure ==
    [][(/\ SettlesAfterExit(1, {0})
        /\ NonBlank(stdoutData[1]) # <<>>
        /\ \A k \in 1..Len(stdoutData[1]) : stdoutData[1][k].kind # "json") =>
          /\ messages' # <<>>
          /\ LastOf(messages').type = "result"
          /\ LastOf(messages').is_error
          /\ LastOf(messages').input_tokens = 0
          /\ LastOf(messages').output_tokens = 0
          /\ LastOf(messages').total_cost_usd = 0]_vars

\* C17: when the call of a process that exited 0 settles, the session id is
\* the one of the last step_start line that carries an id, or the locally
\* generated one when no line carries an id.
C17_LastIdWins ==
    [][SettlesAfterExit(1, {0}) =>
          LET out == stdoutData[1]
              ids == {k \in 1..Len(out) : IsStepStartWithId(out[k])}
          IN  IF ids = {}
              THEN sessions'[1].sessionId = "opencode-now"
              ELSE \E k \in ids : /\ \A j \in ids : j <= k
                                  /\ sessions'[1].sessionId = out[k].sessionID]_vars

C17_Witness ==
    /\ proc[1] = "closed" /\ exitCode[1] = 0
    /\ stdoutData[1] = <<StepStartLine("abc"), StepStartLine("xyz")>>
    /\ sessions[1].sessionId = "xyz"

\* C18 as stated: once the call of the current session has settled, the
\* session's sessionId is not null.
C18_IdNeverNull ==
    \A i \in Calls :
        (i = sessionInfo /\ waitP[i] # "none" /\ pc[i] \in Settled)
            => sessions[i].sessionId # NoId

\* C18 amended: a start() call that settled after its wait resolved (the
\* process exited 0) returns a session info whose sessionId is not null.
C18_IdAfterSuccess ==
    \A i \in Calls :
        (pc[i] = "resolved" /\ waitP[i] = "resolved") =>
            /\ returned[i] # Null
            /\ sessions[returned[i]].sessionId # NoId

C18_Witness ==
    \E i \in Calls :
        /\ pc[i] = "resolved" /\ waitP[i] = "resolved"
        /\ returned[i] # Null
        /\ sessions[returned[i]].sessionId = "opencode-now"

\* C19 as stated: once the call has settled, every message of the log
\* carries the sessionId of the session info.
C19_MessagesCarryId ==
    (waitP[1] # "none" /\ pc[1] \in Settled) =>
        \A k \in 1..Len(messages) :
            messages[k].session_id = sessions[sessionInfo].sessionId

\* C19 amended: every message carries, when it is appended, the sessionId
\* the session info holds then, or "pending" when that sessionId is null.
C19_MessagesCarryIdOrPending ==
    [][\A k \in 1..Len(messages') :
          k > Len(messages) =>
              messages'[k].session_id =
                  (IF sessions'[sessionInfo'].sessionId = NoId THEN "pending"
                   ELSE sessions'[sessionInfo'].sessionId)]_vars

C19_Witness ==
    /\ pc[1] \in Settled
    /\ Len(messages) = 1
    /\ messages[1].is_error /\ messages[1].session_id = "pending"
    /\ sessions[1].sessionId = NoId

StreamOps == {"startStreaming", "addStreamMessage", "completeStream"}

C21_StopIdempotent ==
    [][(Stop /\ ~IsRunning) =>
          /\ process = Null
          /\ abortController = Null
          /\ lastCall'.result = "ok"
          /\ UNCHANGED <<runnerVars, proc, pc, waitP, returned, started,
                         stdin, events>>]_vars

C21_Witness ==
    /\ lastCall = [op |-> "stop", result |-> "ok"]
    /\ sessionInfo # Null /\ ~IsRunning
    /\ pc[sessionInfo] = "awaiting"
    /\ proc[sessionInfo] = "signalled"

\* C22: in the step in which an accepted start() call settles, cleanup has
\* run: the process handle, the pending-result holder and the cancellation
\* token are null, both log stream fields are null and the call's log
\* streams are not open.
C22_CleanupOnSettle ==
    [][\A i \in Calls :
          (pc[i] \notin Settled /\ pc'[i] \in Settled) =>
              /\ process' = Null
              /\ pendingResultMessage' = NoMsg
              /\ abortController' = Null
              /\ logStream' = Null
              /\ readableLogStream' = Null
              /\ streams'[i] # "open"]_vars

\* C23: while the process of the current session has not reported its exit,
\* no step appends a `result` message to the message log (the log is that
\* session's: it was emptied when the session started).
C23_ResultAfterExit ==
    [][(/\ sessionInfo # Null
        /\ proc[sessionInfo] \in {"alive", "signalled"}
        /\ started' = started) =>
          NumOfType(messages', "result") = NumOfType(messages, "result")]_vars

\* The request passed the verification of the transport's mode
Verified(t) ==
    IF t.verificationMode = "proxy"
    THEN t.request.authorization = "Bearer " \o t.secret
    ELSE /\ t.request.signature # NoSignature
         /\ t.request.signature.len = 64
         /\ t.request.signature.key = t.secret
         /\ t.request.signature.msg \in {t.request.body.raw, t.request.body.json}

\* C24: the transport emitted an `event` for the request it handled only if
\* the request passed verification (proxy mode: the Authorization header is
\* "Bearer " and the secret; direct mode: a linear-signature header is
\* present and is the HMAC of the body under the secret), and a request
\* that failed verification was answered 401 with no `event`.
C24_VerifiedOnly ==
    transport.request # NoRequest =>
        /\ transport.emitted # <<>> => Verified(transport)
        /\ ~Verified(transport) =>
              transport.reply = 401 /\ transport.emitted = <<>>

C24_Witness ==
    /\ transport.verificationMode = "direct"
    /\ transport.request.signature = Hmac(transport.secret, "{a:1}")
    /\ transport.emitted = <<"{a:1}">>
    /\ transport.reply = 200

\* C25: the message log, emptied at each accepted start(), never holds more
\* than one `result` message, whatever the listeners do.
C25_AtMostOneResult == NumOfType(messages, "result") <= 1

\* C26: when the call of a process that exited 0 settles, the log is the
\* assistant message followed by the result when the output carried text,
\* and the result alone when it carried none.
C26_AssistantThenResult ==
    [][SettlesAfterExit(1, {0}) =>
          IF ConcatFragments(stdoutData[1]) # ""
          THEN /\ Len(messages') = 2
               /\ messages'[1].type = "assistant"
               /\ messages'[2].type = "result"
          ELSE /\ Len(messages') = 1
               /\ messages'[1].type = "result"]_vars

\* The messages carried by the `message` events among the first n events
MessagesEmitted(n) ==
    LET es == SelectSeq(SubSeq(events, 1, n), LAMBDA e : e.name = "message")
    IN  [k \in 1..Len(es) |-> es[k].msg]

IsMessageEvent(e, type) == e.name = "message" /\ e.msg.type = type

\* C27: the `message` events emitted since the session started carry the
\* messages of the log, one each and in the log's order; every `text` event
\* precedes the `message` event of the assistant message, which precedes
\* that of the success result, which precedes `complete`; and the list
\* carried by `complete` is the log as it was when `complete` was emitted.
C27_EventOrder ==
    /\ MessagesEmitted(Len(events)) = messages
    /\ \A a, b \in 1..Len(events) :
          /\ (events[a].name = "text" /\ IsMessageEvent(events[b], "assistant"))
                => a < b
          /\ (IsMessageEvent(events[a], "assistant") /\ IsMessageEvent(events[b], "result"))
                => a < b
          /\ (/\ IsMessageEvent(events[a], "result")
              /\ events[a].msg.subtype = "success"
              /\ events[b].name = "complete") => a < b
    /\ \A b \in 1..Len(events) :
          events[b].name = "complete" => events[b].list = MessagesEmitted(b)

C27_Witness ==
    /\ pc[1] = "resolved"
    /\ Len(messages) = 2
    /\ Len(events) = 6
    /\ events[1].name = "text" /\ events[2].name = "text"
    /\ IsMessageEvent(events[3], "assistant")
    /\ events[4].name = "assistant"
    /\ IsMessageEvent(events[5], "result")
    /\ events[6].name = "complete" /\ events[6].list = messages

\* C28: an accepted start() call whose session log could not be opened
\* (setupLogging failed: the call has no log stream) still spawns its
\* process and is not rejected without one, and once it has settled the log
\* holds a result and isRunning() is false.
C28_LogFailureHarmless ==
    \A i \in Calls :
        (pc[i] # "idle" /\ streams[i] = "none") =>
            /\ waitP[i] # "none"
            /\ (i = started /\ pc[i] \in Settled) =>
                  /\ NumOfType(messages, "result") >= 1
                  /\ ~IsRunning

\* An event the parser only logs: tool_call, tool_result, error, or a type
\* it does not know
IsIgnoredEvent(l) ==
    l.kind = "json" /\ l.type \notin {"step_start", "text", "step_finish"}

WithoutIgnored(output) == SelectSeq(output, LAMBDA l : ~IsIgnoredEvent(l))

\* The id of the last step_start line that carries one, else the local id
FinalId(output) ==
    LET ids == {k \in 1..Len(output) : IsStepStartWithId(output[k])}
    IN  IF ids = {} THEN "opencode-now"
        ELSE output[CHOOSE k \in ids : \A j \in ids : j <= k].sessionID

InputTotal(output) ==
    SumSeq([k \in 1..Len(output) |->
              IF IsStepFinish(output[k]) THEN output[k].input ELSE 0])
OutputTotal(output) ==
    SumSeq([k \in 1..Len(output) |->
              IF IsStepFinish(output[k]) THEN output[k].output ELSE 0])
CostTotal(output) ==
    SumSeq([k \in 1..Len(output) |->
              IF IsStepFinish(output[k]) THEN output[k].cost ELSE 0])

\* C29: when the call of a process that exited 0 settles and the output
\* held tool_call, tool_result, error or unknown events, the log is exactly
\* the assistant message (if there is text) and one success result, whose
\* text, usage totals and session id are those of the other lines alone:
\* the ignored events added no message, changed no total and no id, and
\* the result is not an error result.
C29_IgnoredEvents ==
    [][(/\ SettlesAfterExit(1, {0})
        /\ \E k \in 1..Len(stdoutData[1]) : IsIgnoredEvent(stdoutData[1][k])) =>
          LET kept == WithoutIgnored(stdoutData[1])
              t == ConcatFragments(kept)
              id == FinalId(kept)
              result == [type |-> "result", subtype |-> "success",
                         is_error |-> FALSE, text |-> t, errors |-> <<>>,
                         input_tokens |-> InputTotal(kept),
                         output_tokens |-> OutputTotal(kept),
                         total_cost_usd |-> CostTotal(kept), session_id |-> id]
          IN  /\ sessions'[1].sessionId = id
              /\ Len(messages') = (IF t = "" THEN 1 ELSE 2)
              /\ LastOf(messages') = result
              /\ t # "" => /\ messages'[1].type = "assistant"
                           /\ messages'[1].text = t
                           /\ messages'[1].session_id = id]_vars

C29_Witness ==
    /\ proc[1] = "closed" /\ exitCode[1] = 0 /\ waitP[1] = "resolved"
    /\ stdoutData[1] = <<OtherLine("future_type"), StepFinishLine(10, 5, 2)>>
    /\ messages = <<>>
    /\ pendingResultMessage.type = "result"
    /\ ~pendingResultMessage.is_error
    /\ pendingResultMessage.input_tokens = 10

\* C30: a completeStream() made while the session's process is alive ends
\* that process's input stream and changes nothing else: isRunning(), the
\* process handle, the cancellation token and the message log stay as they
\* are and the process is not signalled.
C30_ClosesInputOnly ==
    [][(/\ lastCall' # lastCall
        /\ lastCall'.op = "completeStream"
        /\ process # Null /\ proc[process] = "alive") =>
          /\ stdin'[process] = "ended"
          /\ UNCHANGED <<runnerVars, proc, pc, waitP, started, events>>]_vars

\* The messages carried by the `message` events that call i emitted
MessagesBy(i) ==
    LET es == SelectSeq(events, LAMBDA e : e.name = "message" /\ e.by = i)
    IN  [k \in 1..Len(es) |-> es[k].msg]

\* C31: once the most recent accepted start() call has settled,
\* getMessages() is the list of the messages that call produced, in order,
\* and holds no message of an earlier call.
C31_FreshLog ==
    (started > 0 /\ pc[started] \in Settled) => GetMessages = MessagesBy(started)

\* C32: when the call of a process that exited with a non-zero code
\* settles, no `text` or `assistant` event has been emitted and the log is
\* exactly one error result, whatever the process wrote to stdout.
C32_StdoutDiscarded ==
    [][SettlesAfterExit(1, {137}) =>
          /\ \A k \in 1..Len(events') : events'[k].name \notin {"text", "assistant"}
          /\ NumOfType(messages', "assistant") = 0
          /\ Len(messages') = 1
          /\ messages'[1].type = "result"
          /\ messages'[1].is_error
          /\ messages'[1].subtype = "error_during_execution"]_vars

C32_Witness ==
    /\ proc[1] = "closed" /\ exitCode[1] = 137 /\ waitP[1] = "rejected"
    /\ stdoutData[1] = <<TextLine("Hi "), StepFinishLine(10, 5, 2)>>
    /\ messages = <<>>
    /\ events = <<>>

\* C33: no start() call has emitted both an `error` event and a `complete`
\* event, whatever the process did and whatever the listeners do.
C33_ErrorXorComplete ==
    \A i \in Calls : EventsOf(i, "error") = {} \/ EventsOf(i, "complete") = {}

\* The promise of the n-th registerApprovalRequest call is still pending
ApprovalPending(n) ==
    n \in DOMAIN server.approvals /\ server.approvals[n].state = "pending"

\* C34: when stop() has returned, every promise registerApprovalRequest
\* returned before it is settled and the server holds no pending approval,
\* also when several requests were registered for one session id.
C34_StopRejectsAll ==
    server.lastOp = "stop:returned" =>
        /\ \A n \in 1..MaxApprovals : ~ApprovalPending(n)
        /\ server.pendingApprovals = EmptyMap

\* C35: the isListening flag is true exactly when the Fastify instance is
\* listening, after any sequence of start() and stop() calls.
C35_FlagMatchesServer ==
    server.isListening <=> server.app = "listening"

\* The promise of the f-th startOAuthFlow call has been returned / is settled
FlowStarted(f) == f \in DOMAIN server.flows
FlowSettled(f) == FlowStarted(f) /\ server.flows[f].state # "pending"

\* C36: every promise startOAuthFlow returned eventually settles, for any
\* number of flows started at any times, two in one clock tick included.
C36_EveryFlowSettles ==
    \A f \in 1..MaxFlows : FlowStarted(f) ~> FlowSettled(f)


====
